---- MODULE Spec2Model ----
(***************************************************************************)
(* Model of scipy/optimize/_numdiff.py: finite difference estimation of    *)
(* Jacobians under box constraints, with column grouping for sparse        *)
(* Jacobians, and the derivative checker.                                  *)
(*                                                                         *)
(* Numbers.  The code computes in float64; the model computes in exact     *)
(* arithmetic on a grid.  A coordinate (x0, lb, ub, h) is an integer       *)
(* number of ticks, Unit ticks making 1.0, extended with -inf and +inf.    *)
(* Bounds and points lie on multiples of Unit, so that dist / num_steps    *)
(* and 0.5 * dist / num_steps are whole ticks for num_steps in NumSteps.   *)
(* A value of fun is an integer in units of 1 / Unit^2 (so that x^2 of a   *)
(* tick count is exact), and a difference quotient is a reduced fraction.  *)
(***************************************************************************)
EXTENDS Integers, Sequences, FiniteSets

VARIABLES op, inp, out

vars == <<op, inp, out>>

(***************************************************************************)
(* Bounds of the model.                                                    *)
(***************************************************************************)
\* largest distance from x0 to a finite bound, in multiples of 1.0
MaxDist == 3
\* largest requested step magnitude, in pairs of ticks
MaxH == 4
\* largest number of rows and of columns of a matrix given to group_columns
MaxRows == 2
MaxCols == 3
\* largest step magnitude, in ticks, given to the differencers directly
MaxStep == 1
\* largest magnitude of an entry of the analytic Jacobian given to the checker
MaxEntry == 2

\* ticks per 1.0: 2 (for the factor 0.5) times the largest num_steps
Unit == 2 * 2
NumSteps == {1, 2}
Dims == {1, 2}

(***************************************************************************)
(* Extended reals: [k |-> -1, 0, 1, v |-> ticks]; k = -1 is -inf, k = 1 is *)
(* +inf, k = 0 is the finite value v.                                      *)
(***************************************************************************)
Fin(v) == [k |-> 0, v |-> v]
PosInf == [k |-> 1, v |-> 0]
NegInf == [k |-> -1, v |-> 0]
IsFin(a) == a.k = 0

ExtLe(a, b) == IF a.k = 0 /\ b.k = 0 THEN a.v <= b.v ELSE a.k <= b.k
ExtLt(a, b) == IF a.k = 0 /\ b.k = 0 THEN a.v < b.v ELSE a.k < b.k
ExtNeg(a) == [k |-> 0 - a.k, v |-> 0 - a.v]
\* a + b; never called with infinities of opposite sign (x0 and h are finite)
ExtAdd(a, b) ==
  IF a.k = 0 /\ b.k = 0 THEN Fin(a.v + b.v)
  ELSE IF a.k # 0 THEN [k |-> a.k, v |-> 0]
  ELSE [k |-> b.k, v |-> 0]
ExtSub(a, b) == ExtAdd(a, ExtNeg(b))
ExtAbs(a) == IF a.k = 0 THEN Fin(IF a.v < 0 THEN 0 - a.v ELSE a.v) ELSE PosInf
ExtMin(a, b) == IF ExtLe(a, b) THEN a ELSE b
ExtMax(a, b) == IF ExtLe(a, b) THEN b ELSE a
\* a * q for an integer q > 0
ExtMul(a, q) == IF a.k = 0 THEN Fin(a.v * q) ELSE a
\* a / q for an integer q > 0 (exact on the grid)
ExtDiv(a, q) == IF a.k = 0 THEN Fin(a.v \div q) ELSE a

Abs(i) == IF i < 0 THEN 0 - i ELSE i
\* F(v), with v evaluated once before F uses it
Apply(F(_), v) == CHOOSE r \in {F(x) : x \in {v}} : TRUE
Range(s) == {s[i] : i \in DOMAIN s}

(***************************************************************************)
(* _adjust_scheme_to_bounds, one variable at a time (every numpy operation *)
(* in it is elementwise); x0 is finite, h is finite, lb and ub extended.   *)
(***************************************************************************)
lower_dist(x0, lb) == ExtSub(x0, lb)
upper_dist(x0, ub) == ExtSub(ub, x0)
h_total(h, num_steps) == ExtMul(h, num_steps)

\* mutant of violated: only the upper bound is tested
violated_upper_only(x0, h, num_steps, lb, ub) ==
  ExtLt(ub, ExtAdd(x0, ExtMul(h, num_steps)))

\* '1-sided': x = x0 + h_total; violated = (x < lb) | (x > ub)
violated(x0, h, num_steps, lb, ub) ==
  LET x == ExtAdd(x0, h_total(h, num_steps))
  IN  ExtLt(x, lb) \/ ExtLt(ub, x)

\* '1-sided': fitting = |h_total| <= max(lower_dist, upper_dist)
fitting(x0, h, num_steps, lb, ub) ==
  ExtLe(ExtAbs(h_total(h, num_steps)),
        ExtMax(lower_dist(x0, lb), upper_dist(x0, ub)))

\* mutant of adjust_1sided: a step that does not fit is clamped to the
\* nearer bound
adjust_1sided_nearer_bound(x0, h, num_steps, lb, ub) ==
  LET fit == fitting(x0, h, num_steps, lb, ub)
      lo == lower_dist(x0, lb)
      up == upper_dist(x0, ub)
      h1 == IF violated(x0, h, num_steps, lb, ub) /\ fit THEN ExtNeg(h) ELSE h
      forward == ExtLe(up, lo) /\ ~fit
      h2 == IF forward THEN ExtDiv(up, num_steps) ELSE h1
      backward == ExtLt(lo, up) /\ ~fit
      h3 == IF backward THEN ExtNeg(ExtDiv(lo, num_steps)) ELSE h2
  IN  [h |-> h3, use_one_sided |-> TRUE]

\* the '1-sided' branch for one variable
adjust_1sided(x0, h, num_steps, lb, ub) ==
  LET fit == fitting(x0, h, num_steps, lb, ub)
      lo == lower_dist(x0, lb)
      up == upper_dist(x0, ub)
      h1 == IF violated(x0, h, num_steps, lb, ub) /\ fit THEN ExtNeg(h) ELSE h
      forward == ExtLe(lo, up) /\ ~fit
      h2 == IF forward THEN ExtDiv(up, num_steps) ELSE h1
      backward == ExtLt(up, lo) /\ ~fit
      h3 == IF backward THEN ExtNeg(ExtDiv(lo, num_steps)) ELSE h2
  IN  [h |-> h3, use_one_sided |-> TRUE]

\* mutant of central: one side with room is enough
central_either(x0, h, num_steps, lb, ub) ==
  \/ ExtLe(ExtMul(h, num_steps), ExtSub(x0, lb))
  \/ ExtLe(ExtMul(h, num_steps), ExtSub(ub, x0))

\* '2-sided': central = (lower_dist >= h_total) & (upper_dist >= h_total)
central(x0, h, num_steps, lb, ub) ==
  /\ ExtLe(h_total(h, num_steps), lower_dist(x0, lb))
  /\ ExtLe(h_total(h, num_steps), upper_dist(x0, ub))

\* mutant of adjust_2sided: the one-sided step may use the whole distance
\* (the factor 0.5 is dropped)
adjust_2sided_whole_dist(x0, h, num_steps, lb, ub) ==
  LET cen == /\ ExtLe(ExtMul(h, num_steps), ExtSub(x0, lb))
             /\ ExtLe(ExtMul(h, num_steps), ExtSub(ub, x0))
      lo == ExtSub(x0, lb)
      up == ExtSub(ub, x0)
      forward == ExtLe(lo, up) /\ ~cen
      h1 == IF forward THEN ExtMin(h, ExtDiv(up, num_steps)) ELSE h
      backward == ExtLt(up, lo) /\ ~cen
      h2 == IF backward THEN ExtNeg(ExtMin(h, ExtDiv(lo, num_steps))) ELSE h1
      min_dist == ExtDiv(ExtMin(up, lo), num_steps)
      adjusted_central == ~cen /\ ExtLe(ExtAbs(h2), min_dist)
  IN  [h |-> IF adjusted_central THEN min_dist ELSE h2,
       use_one_sided |-> (forward \/ backward) /\ ~adjusted_central]

\* the '2-sided' branch for one variable; h is already |h|
adjust_2sided(x0, h, num_steps, lb, ub) ==
  LET cen == central(x0, h, num_steps, lb, ub)
      lo == lower_dist(x0, lb)
      up == upper_dist(x0, ub)
      forward == ExtLe(lo, up) /\ ~cen
      h1 == IF forward THEN ExtMin(h, ExtDiv(up, 2 * num_steps)) ELSE h
      backward == ExtLt(up, lo) /\ ~cen
      h2 == IF backward THEN ExtNeg(ExtMin(h, ExtDiv(lo, 2 * num_steps))) ELSE h1
      one == forward \/ backward
      min_dist == ExtDiv(ExtMin(up, lo), num_steps)
      adjusted_central == ~cen /\ ExtLe(ExtAbs(h2), min_dist)
  IN  [h |-> IF adjusted_central THEN min_dist ELSE h2,
       use_one_sided |-> one /\ ~adjusted_central]

\* np.all((lb == -np.inf) & (ub == np.inf))
unbounded(lb, ub) == \A i \in DOMAIN lb : lb[i] = NegInf /\ ub[i] = PosInf

\* _adjust_scheme_to_bounds(x0, h, num_steps, scheme, lb, ub) on vectors
\* (sequences of extended reals); the result is the pair of vectors
\* h_adjusted, use_one_sided, or the ValueError for an unknown scheme.
adjust_scheme_to_bounds(x0, h, num_steps, scheme, lb, ub) ==
  IF scheme \notin {"1-sided", "2-sided"} THEN [err |-> "ValueError"]
  ELSE
    LET h0 == IF scheme = "2-sided" THEN [i \in DOMAIN h |-> ExtAbs(h[i])] ELSE h
        one0 == scheme = "1-sided"
        r == [i \in DOMAIN h |->
                IF scheme = "1-sided"
                THEN adjust_1sided(x0[i], h0[i], num_steps, lb[i], ub[i])
                ELSE adjust_2sided(x0[i], h0[i], num_steps, lb[i], ub[i])]
    IN  IF unbounded(lb, ub)
        THEN [err |-> "", h |-> h0, use_one_sided |-> [i \in DOMAIN h |-> one0]]
        ELSE [err |-> "", h |-> [i \in DOMAIN h |-> r[i].h],
              use_one_sided |-> [i \in DOMAIN h |-> r[i].use_one_sided]]

(***************************************************************************)
(* Inputs of the step planner.                                             *)
(***************************************************************************)
\* the lower bounds admitted below x0: -inf or x0 - d, d a multiple of 1.0
LowerBounds(x0) == {NegInf} \cup {Fin(x0.v - d * Unit) : d \in 0..MaxDist}
UpperBounds(x0) == {PosInf} \cup {Fin(x0.v + d * Unit) : d \in 0..MaxDist}
Steps == {Fin(2 * j) : j \in (0 - MaxH)..MaxH}
Schemes == {"1-sided", "2-sided"}

Vectors(n, S) == [1..n -> S]

(***************************************************************************)
(* The step planner called on its own.                                     *)
(***************************************************************************)
InitNone ==
  /\ op = "none"
  /\ inp = [n |-> 0]
  /\ out = [err |-> ""]

Adjust ==
  /\ op = "none"
  /\ \E n \in Dims, num_steps \in NumSteps, scheme \in Schemes :
      \E h \in Vectors(n, Steps) :
       \E lb \in Vectors(n, LowerBounds(Fin(0))), ub \in Vectors(n, UpperBounds(Fin(0))) :
        LET x0 == [i \in 1..n |-> Fin(0)]
        IN  /\ op' = "adjust"
            /\ inp' = [n |-> n, x0 |-> x0, h |-> h, num_steps |-> num_steps,
                       scheme |-> scheme, lb |-> lb, ub |-> ub]
            /\ out' = adjust_scheme_to_bounds(x0, h, num_steps, scheme, lb, ub)

NextAdjust == Adjust

SpecAdjust == InitNone /\ [][NextAdjust]_vars

(***************************************************************************)
(* Claims about the step planner, stated on the last call's inputs and     *)
(* outputs with the extended-real primitives only.                         *)
(***************************************************************************)
AdjustCalled(scheme) ==
  /\ op = "adjust"
  /\ inp.scheme = scheme
  /\ \E i \in 1..inp.n : inp.lb[i] # NegInf \/ inp.ub[i] # PosInf

\* per variable i of the last call
LoD(i) == ExtSub(inp.x0[i], inp.lb[i])
UpD(i) == ExtSub(inp.ub[i], inp.x0[i])
HTot(i) == ExtMul(inp.h[i], inp.num_steps)
Leaves(i) ==
  \/ ExtLt(ExtAdd(inp.x0[i], HTot(i)), inp.lb[i])
  \/ ExtLt(inp.ub[i], ExtAdd(inp.x0[i], HTot(i)))
Fits(i) == ExtLe(ExtAbs(HTot(i)), ExtMax(LoD(i), UpD(i)))
ClampedUp(i) == out.h[i] = ExtDiv(UpD(i), inp.num_steps)
ClampedDown(i) == out.h[i] = ExtNeg(ExtDiv(LoD(i), inp.num_steps))

\* C8 as amended: in the '1-sided' scheme with at least one finite bound, a
\* step that leaves [lb, ub] and fits the larger distance is flipped; a step
\* that does not fit the larger distance is clamped to upper_dist/num_steps
\* (upper_dist >= lower_dist) or to -lower_dist/num_steps (otherwise); a
\* step that stays inside [lb, ub] and fits is returned unchanged.
C8_OneSidedAdjust ==
  AdjustCalled("1-sided") =>
    \A i \in 1..inp.n :
      /\ out.use_one_sided[i]
      /\ (Leaves(i) /\ Fits(i)) => out.h[i] = ExtNeg(inp.h[i])
      /\ (~Fits(i) /\ ExtLe(LoD(i), UpD(i))) => ClampedUp(i)
      /\ (~Fits(i) /\ ExtLt(UpD(i), LoD(i))) => ClampedDown(i)
      /\ (~Leaves(i) /\ Fits(i)) => out.h[i] = inp.h[i]

\* C8 as stated: flipped when the step leaves [lb, ub] and fits; clamped in
\* every other case.
C8_Original ==
  AdjustCalled("1-sided") =>
    \A i \in 1..inp.n :
      /\ (Leaves(i) /\ Fits(i)) => out.h[i] = ExtNeg(inp.h[i])
      /\ (~(Leaves(i) /\ Fits(i)) /\ ExtLe(LoD(i), UpD(i))) => ClampedUp(i)
      /\ (~(Leaves(i) /\ Fits(i)) /\ ExtLt(UpD(i), LoD(i))) => ClampedDown(i)

\* a '1-sided' call in which one variable is flipped, one is clamped
C8_Witness ==
  /\ AdjustCalled("1-sided")
  /\ \E i \in 1..inp.n :
       Leaves(i) /\ Fits(i) /\ inp.h[i] # Fin(0) /\ out.h[i] = ExtNeg(inp.h[i])
  /\ \E i \in 1..inp.n : ~Fits(i) /\ out.h[i] # inp.h[i]

\* '2-sided', per variable i of the last call
AbsH(i) == ExtAbs(inp.h[i])
BothRoom(i) ==
  ExtLe(ExtMul(AbsH(i), inp.num_steps), LoD(i)) /\ ExtLe(ExtMul(AbsH(i), inp.num_steps), UpD(i))
Larger(i) == ExtMax(LoD(i), UpD(i))
Smaller(i) == ExtMin(LoD(i), UpD(i))
OneSidedStep(i) == ExtMin(AbsH(i), ExtDiv(Larger(i), 2 * inp.num_steps))
Recentred(i) == ExtLe(OneSidedStep(i), ExtDiv(Smaller(i), inp.num_steps))

\* C9: in the '2-sided' scheme with at least one finite bound, a variable
\* ends two-sided exactly when both distances are >= h_total (its step is
\* then |h|) or, failing that, when its one-sided step min(|h|, 0.5 *
\* larger distance / num_steps) is <= smaller distance / num_steps (its
\* step is then smaller distance / num_steps); in every other case it ends
\* one-sided with that one-sided step as magnitude, forward when
\* upper_dist >= lower_dist and backward otherwise.
C9_TwoSidedAdjust ==
  AdjustCalled("2-sided") =>
    \A i \in 1..inp.n :
      /\ ~out.use_one_sided[i] <=> (BothRoom(i) \/ Recentred(i))
      /\ BothRoom(i) => out.h[i] = AbsH(i)
      /\ (~BothRoom(i) /\ Recentred(i)) =>
           out.h[i] = ExtDiv(Smaller(i), inp.num_steps)
      /\ (~BothRoom(i) /\ ~Recentred(i)) =>
           out.h[i] = IF ExtLe(LoD(i), UpD(i)) THEN OneSidedStep(i)
                      ELSE ExtNeg(OneSidedStep(i))

\* a '2-sided' call with a recentred variable and a backward one-sided one
C9_Witness ==
  /\ AdjustCalled("2-sided")
  /\ \E i \in 1..inp.n :
       /\ ~BothRoom(i) /\ Recentred(i) /\ ~out.use_one_sided[i]
       /\ out.h[i] # AbsH(i) /\ ExtLt(Fin(0), out.h[i])
  /\ \E i \in 1..inp.n :
       out.use_one_sided[i] /\ ExtLt(out.h[i], Fin(0)) /\ IsFin(inp.lb[i])

\* both schemes, per variable i of the last call
InsideOpenBounds(i) ==
  /\ ExtLe(inp.lb[i], inp.x0[i]) /\ ExtLe(inp.x0[i], inp.ub[i])
  /\ ExtLt(inp.lb[i], inp.ub[i])
\* the number of steps the one-sided scheme takes in its direction:
\* num_steps for '1-sided'; for '2-sided' the one-sided fallback reaches
\* twice as far (the factor 0.5 of lines 77 and 82)
OneSidedReach == IF inp.scheme = "1-sided" THEN inp.num_steps ELSE 2 * inp.num_steps
\* the one-sided scheme with the full step |h|, taken upwards (dir = 1) or
\* downwards (dir = -1), stays inside [lb, ub]
DirectionAdmits(i, dir) ==
  LET reach == ExtMul(AbsH(i), OneSidedReach)
      x == ExtAdd(inp.x0[i], IF dir = 1 THEN reach ELSE ExtNeg(reach))
  IN  ExtLe(inp.lb[i], x) /\ ExtLe(x, inp.ub[i])
Reduced(i) == ExtLt(ExtAbs(out.h[i]), AbsH(i))
\* dx of the differencers for variable i with the returned step: x0 + h - x0
\* ('2-point'), x0 + 2h - x0 ('3-point' one-sided), (x0 + h) - (x0 - h)
\* ('3-point' central)
Divisor(i) ==
  IF inp.scheme = "1-sided"
  THEN ExtSub(ExtAdd(inp.x0[i], out.h[i]), inp.x0[i])
  ELSE IF out.use_one_sided[i]
  THEN ExtSub(ExtAdd(inp.x0[i], ExtMul(out.h[i], 2)), inp.x0[i])
  ELSE ExtSub(ExtAdd(inp.x0[i], out.h[i]), ExtSub(inp.x0[i], out.h[i]))

RECURSIVE Gcd(_, _)
Gcd(a, b) == IF b = 0 THEN a ELSE Gcd(b, a % b)

Sign(i) == IF i > 0 THEN 1 ELSE IF i < 0 THEN 0 - 1 ELSE 0

Quot(df, dx) ==
  IF dx = 0 THEN [num |-> Sign(df), den |-> 0]
  ELSE LET g == Gcd(Abs(df), Abs(dx))
       IN  [num |-> Sign(dx) * (df \div g), den |-> Abs(dx) \div g]

Zero == [num |-> 0, den |-> 1]

(***************************************************************************)
(* The user function fun: a point (a sequence of tick counts) to a         *)
(* sequence of m values in units of 1 / Unit^2.                            *)
(***************************************************************************)
\* g of the docstring: x**2 if x >= 1 else x
g(x) == IF x >= Unit THEN x * x ELSE x * Unit

RECURSIVE SumG(_, _)
SumG(x, i) == IF i = 0 THEN 0 ELSE g(x[i]) + SumG(x, i - 1)

Funs == {"g", "sq", "mix"}

\* "g": m = 1, the sum of g over the coordinates; "sq": m = n, x_r^2 in row
\* r (a diagonal Jacobian); "mix": m = 2, both rows depend on every variable
Fun(name, x) ==
  IF name = "g" THEN <<SumG(x, Len(x))>>
  ELSE IF name = "sq" THEN [r \in 1..Len(x) |-> x[r] * x[r]]
  ELSE <<(x[1] + 2 * x[Len(x)]) * Unit, x[1] * x[Len(x)] + x[1] * Unit>>

FunM(name, n) == IF name = "g" THEN 1 ELSE IF name = "sq" THEN n ELSE 2

\* x0 + c * h[i] * e_i
Perturbed(x0, h, i, c) == [j \in DOMAIN x0 |-> IF j = i THEN x0[j] + c * h[j] ELSE x0[j]]

(***************************************************************************)
(* _dense_difference(fun, x0, f0, h, use_one_sided, method): x0, h are     *)
(* sequences of tick counts.  The result is the m-by-n matrix J[r][c], the *)
(* evaluation points in the order of the calls of fun, and whether the     *)
(* matrix is returned ravelled (m = 1).                                    *)
(***************************************************************************)
\* mutant of dense_points: the central scheme evaluates x0 as well
dense_points_with_centre(x0, h, use_one_sided, method, i) ==
  IF method = "2-point" THEN <<Perturbed(x0, h, i, 1)>>
  ELSE IF use_one_sided[i] THEN <<Perturbed(x0, h, i, 1), Perturbed(x0, h, i, 2)>>
  ELSE <<Perturbed(x0, h, i, 0 - 1), x0, Perturbed(x0, h, i, 1)>>

\* the points at which variable i makes fun be evaluated, in order
dense_points(x0, h, use_one_sided, method, i) ==
  IF method = "2-point" THEN <<Perturbed(x0, h, i, 1)>>
  ELSE IF use_one_sided[i] THEN <<Perturbed(x0, h, i, 1), Perturbed(x0, h, i, 2)>>
  ELSE <<Perturbed(x0, h, i, 0 - 1), Perturbed(x0, h, i, 1)>>

\* mutant of dense_column: the one-sided '3-point' formula is replaced by
\* the first-order difference f2 - f0
dense_column_first_order(fun, x0, f0, h, use_one_sided, method, i) ==
  LET x1 == Perturbed(x0, h, i, IF method = "3-point" /\ ~use_one_sided[i]
                                 THEN 0 - 1 ELSE 1)
      x2 == Perturbed(x0, h, i, IF method = "3-point" /\ use_one_sided[i]
                                 THEN 2 ELSE 1)
  IN  IF method = "2-point" \/ use_one_sided[i]
      THEN [r \in DOMAIN f0 |->
              Quot(Fun(fun, x2)[r] - f0[r], (x2[i] - x0[i]) * Unit)]
      ELSE [r \in DOMAIN f0 |->
              Quot(Fun(fun, x2)[r] - Fun(fun, x1)[r], (x2[i] - x1[i]) * Unit)]

\* J_transposed[i] = df / dx
dense_column(fun, x0, f0, h, use_one_sided, method, i) ==
  LET pts == dense_points(x0, h, use_one_sided, method, i)
  IN  IF method = "2-point"
      THEN LET x == pts[1]
               dx == x[i] - x0[i]
               f == Fun(fun, x)
           IN  [r \in DOMAIN f0 |-> Quot(f[r] - f0[r], dx * Unit)]
      ELSE IF use_one_sided[i]
      THEN LET dx == pts[2][i] - x0[i]
               f1 == Fun(fun, pts[1])
               f2 == Fun(fun, pts[2])
           IN  [r \in DOMAIN f0 |->
                  Quot((0 - 3) * f0[r] + 4 * f1[r] - f2[r], dx * Unit)]
      ELSE LET dx == pts[2][i] - pts[1][i]
               f1 == Fun(fun, pts[1])
               f2 == Fun(fun, pts[2])
           IN  [r \in DOMAIN f0 |-> Quot(f2[r] - f1[r], dx * Unit)]

RECURSIVE Concat(_, _)
Concat(f, n) == IF n = 0 THEN <<>> ELSE Concat(f, n - 1) \o f[n]

dense_difference(fun, x0, f0, h, use_one_sided, method) ==
  LET n == Len(x0)
      m == Len(f0)
      col == [i \in 1..n |-> dense_column(fun, x0, f0, h, use_one_sided, method, i)]
  IN  [J |-> [r \in 1..m |-> [c \in 1..n |-> col[c][r]]],
       evals |-> Concat([i \in 1..n |->
                           dense_points(x0, h, use_one_sided, method, i)], n),
       ravel |-> m = 1]

(***************************************************************************)
(* _sparse_difference(fun, x0, f0, h, use_one_sided, structure, groups,    *)
(* method).  structure[r][c] is TRUE at a nonzero of the m-by-n structure; *)
(* groups[c] is the 0-based group id of column c.  The arguments travel in *)
(* a record a.  The loop over the groups is written for any sequence of    *)
(* group ids; the code's is range(n_groups).                               *)
(***************************************************************************)
Max(S) == CHOOSE x \in S : \A y \in S : y <= x

n_groups(groups) == Max(Range(groups)) + 1

\* x1 and x2 of one group ('3-point'), x of one group ('2-point': x2)
group_x1(a, group) ==
  [c \in DOMAIN a.x0 |->
     IF a.groups[c] # group THEN a.x0[c]
     ELSE IF a.use_one_sided[c] THEN a.x0[c] + a.h[c] ELSE a.x0[c] - a.h[c]]

group_x2(a, group) ==
  [c \in DOMAIN a.x0 |->
     IF a.groups[c] # group THEN a.x0[c]
     ELSE IF a.method = "3-point" /\ a.use_one_sided[c]
          THEN a.x0[c] + 2 * a.h[c] ELSE a.x0[c] + a.h[c]]

group_points(a, group) ==
  IF a.method = "2-point" THEN <<group_x2(a, group)>>
  ELSE <<group_x1(a, group), group_x2(a, group)>>

\* mutant of group_dx: dx is the nominal step h, also for the one-sided
\* and the central '3-point' schemes
group_dx_nominal(a, group, c) == IF a.groups[c] # group THEN 0 ELSE a.h[c]

\* dx of column c in its group
group_dx(a, group, c) ==
  IF a.groups[c] # group THEN 0
  ELSE IF a.method = "2-point" \/ a.use_one_sided[c]
       THEN group_x2(a, group)[c] - a.x0[c]
       ELSE group_x2(a, group)[c] - group_x1(a, group)[c]

\* the (row, column) pairs of find(structure[:, cols]) for the group
group_entries(a, group) ==
  {rc \in (DOMAIN a.f0) \X (DOMAIN a.x0) :
     a.groups[rc[2]] = group /\ a.structure[rc[1]][rc[2]]}

\* df[r] for a row r that find() returned: '3-point' writes the one-sided
\* formula at the rows of the one-sided columns first, then the central
\* difference at the rows of the two-sided columns
group_df(a, group, r) ==
  LET f1 == Fun(a.fun, group_x1(a, group))
      f2 == Fun(a.fun, group_x2(a, group))
  IN  IF a.method = "2-point" THEN f2[r] - a.f0[r]
      ELSE IF \E rc \in group_entries(a, group) :
                 rc[1] = r /\ ~a.use_one_sided[rc[2]]
           THEN f2[r] - f1[r]
           ELSE (0 - 3) * a.f0[r] + 4 * f1[r] - f2[r]

\* mutant of group_write: J is created anew in every iteration
group_write_fresh(a, group, JW) ==
  LET E == group_entries(a, group)
  IN  [J |-> [r \in DOMAIN a.f0 |-> [c \in DOMAIN a.x0 |->
                IF <<r, c>> \in E
                THEN Quot(group_df(a, group, r), group_dx(a, group, c) * Unit)
                ELSE Zero]],
       W |-> [r \in DOMAIN a.f0 |-> [c \in DOMAIN a.x0 |->
                IF <<r, c>> \in E THEN JW.W[r][c] + 1 ELSE JW.W[r][c]]],
       evals |-> JW.evals \o group_points(a, group)]

\* J[i, j] = df[i] / dx[j] for one group, applied to the matrix J and to
\* the count W of the writes at each position
group_write(a, group, JW) ==
  LET E == group_entries(a, group)
  IN  [J |-> [r \in DOMAIN a.f0 |-> [c \in DOMAIN a.x0 |->
                IF <<r, c>> \in E
                THEN Quot(group_df(a, group, r), group_dx(a, group, c) * Unit)
                ELSE JW.J[r][c]]],
       W |-> [r \in DOMAIN a.f0 |-> [c \in DOMAIN a.x0 |->
                IF <<r, c>> \in E THEN JW.W[r][c] + 1 ELSE JW.W[r][c]]],
       evals |-> JW.evals \o group_points(a, group)]

RECURSIVE sparse_loop(_, _, _)
sparse_loop(a, order, k) ==
  IF k = 0
  THEN [J |-> [r \in DOMAIN a.f0 |-> [c \in DOMAIN a.x0 |-> Zero]],
        W |-> [r \in DOMAIN a.f0 |-> [c \in DOMAIN a.x0 |-> 0]],
        evals |-> <<>>]
  ELSE LET step(JW) == group_write(a, order[k], JW)
       IN  Apply(step, sparse_loop(a, order, k - 1))

\* for group in range(n_groups)
group_range(a) == [k \in 1..n_groups(a.groups) |-> k - 1]

sparse_difference(a) == sparse_loop(a, group_range(a), n_groups(a.groups))

(***************************************************************************)
(* approx_derivative.  The arguments travel in a record a:                 *)
(*   method; x0 (tick counts) and x0_ndim (0 for a float, 1, or 2);        *)
(*   lb, ub: [scalar |-> BOOLEAN, v |-> sequence of extended reals];       *)
(*   rel_step: <<>> for None or <<r>>, r in ticks per 1.0;                 *)
(*   f0: "None", "given" (fun(x0), computed by the caller) or "2-d";       *)
(*   fun; sparsity: <<>> for None or <<[structure, groups]>>.              *)
(***************************************************************************)
\* EPS**0.5 and EPS**(1 / 3), in ticks per 1.0
EPS_sqrt == 1
EPS_cbrt == 2

\* mutant of compute_absolute_step: the step is not scaled by max(1, |x0|)
\* and always positive
compute_absolute_step_unscaled(rel_step, x0, method) ==
  [i \in DOMAIN x0 |-> Fin(IF rel_step = <<>> THEN EPS_cbrt ELSE rel_step[1])]

\* _compute_absolute_step(rel_step, x0, method), method being valid
compute_absolute_step(rel_step, x0, method) ==
  LET rel == IF rel_step # <<>> THEN rel_step[1]
             ELSE IF method = "2-point" THEN EPS_sqrt ELSE EPS_cbrt
      sign_x0(i) == IF x0[i] >= 0 THEN 1 ELSE 0 - 1
  IN  [i \in DOMAIN x0 |->
         Fin((rel * sign_x0(i) * (IF Abs(x0[i]) > Unit THEN Abs(x0[i]) ELSE Unit))
             \div Unit)]

\* _prepare_bounds: a scalar bound is resized to the shape of x0
prepare_bounds(b, x0) == IF b.scalar THEN [i \in DOMAIN x0 |-> b.v[1]] ELSE b.v

\* mutant of x0_violates: only the lower bounds are tested
x0_violates_lower_only(x0, lb, ub) ==
  \E i \in DOMAIN x0 : ExtLt(Fin(x0[i]), lb[i])

\* np.any((x0 < lb) | (x0 > ub))
x0_violates(x0, lb, ub) ==
  \E i \in DOMAIN x0 : ExtLt(Fin(x0[i]), lb[i]) \/ ExtLt(ub[i], Fin(x0[i]))

Failed(kind, evals) == [err |-> kind, evals |-> evals]

\* lines 326-345: the step, its adjustment, and the differencing
approx_differences(a, lb, ub, f0, evals0) ==
  LET h == compute_absolute_step(a.rel_step, a.x0, a.method)
      x0e == [i \in DOMAIN a.x0 |-> Fin(a.x0[i])]
      difference(adj) ==
        LET hv == [i \in DOMAIN a.x0 |-> adj.h[i].v]
            d == IF a.sparsity = <<>>
                 THEN dense_difference(a.fun, a.x0, f0, hv, adj.use_one_sided,
                                       a.method)
                 ELSE sparse_difference(
                        [fun |-> a.fun, x0 |-> a.x0, f0 |-> f0, h |-> hv,
                         use_one_sided |-> adj.use_one_sided, method |-> a.method,
                         structure |-> a.sparsity[1].structure,
                         groups |-> a.sparsity[1].groups])
        IN  [err |-> "", evals |-> evals0 \o d.evals, J |-> d.J,
             h |-> adj.h, use_one_sided |-> adj.use_one_sided]
  IN  Apply(difference,
            adjust_scheme_to_bounds(x0e, h, 1,
              IF a.method = "2-point" THEN "1-sided" ELSE "2-sided", lb, ub))

approx_derivative(a) ==
  IF a.method \notin {"2-point", "3-point"} THEN Failed("ValueError", <<>>)
  ELSE IF a.x0_ndim > 1 THEN Failed("ValueError", <<>>)
  ELSE
    LET lb == prepare_bounds(a.lb, a.x0)
        ub == prepare_bounds(a.ub, a.x0)
    IN  IF Len(lb) # Len(a.x0) \/ Len(ub) # Len(a.x0)
        THEN Failed("ValueError", <<>>)
        ELSE IF a.f0 = "2-d" THEN Failed("ValueError", <<>>)
        ELSE
          LET evals0 == IF a.f0 = "None" THEN <<a.x0>> ELSE <<>>
              f0 == Fun(a.fun, a.x0)
          IN  IF x0_violates(a.x0, lb, ub) THEN Failed("ValueError", evals0)
              ELSE approx_differences(a, lb, ub, f0, evals0)

(***************************************************************************)
(* Inputs of approx_derivative.                                            *)
(***************************************************************************)
Methods == {"2-point", "3-point"}
Points == {0 - Unit, Unit}
RelSteps == {<<>>, <<6>>}

FullStructure(m, n) == [r \in 1..m |-> [c \in 1..n |-> TRUE]]
DiagStructure(m, n) == [r \in 1..m |-> [c \in 1..n |-> r = c]]

\* sparsity arguments for an m-by-n Jacobian: None, or the full or the
\* diagonal structure with every column in its own group or all in one
Sparsities(m, n) ==
  {<<>>} \cup
  {<<[structure |-> st, groups |-> gr]>> :
     st \in {FullStructure(m, n), DiagStructure(m, n)},
     gr \in {[c \in 1..n |-> c - 1], [c \in 1..n |-> 0]}}

\* the bounds of one variable that contain x
BoundsAround(x) == LowerBounds(Fin(x)) \X UpperBounds(Fin(x))

ApproxDerivative ==
  /\ op = "none"
  /\ \E n \in Dims, method \in Methods, rel_step \in RelSteps,
        f0 \in {"None", "given"}, fun \in {"g", "sq"} :
      \E x0 \in Vectors(n, Points) :
       \E b \in [1..n -> BoundsAround(0)] :
        \E sparsity \in Sparsities(FunM(fun, n), n) :
         \E a \in {[method |-> method, x0 |-> x0, x0_ndim |-> 1,
                    lb |-> [scalar |-> FALSE,
                            v |-> [i \in 1..n |-> ExtAdd(b[i][1], Fin(x0[i]))]],
                    ub |-> [scalar |-> FALSE,
                            v |-> [i \in 1..n |-> ExtAdd(b[i][2], Fin(x0[i]))]],
                    rel_step |-> rel_step, f0 |-> f0, fun |-> fun,
                    sparsity |-> sparsity]} :
             /\ op' = "approx_derivative"
             /\ inp' = a
             /\ out' = approx_derivative(a)

\* calls that break a requirement on the arguments: an unknown method, a
\* 2-d x0, a bound of the wrong shape, a 2-d f0, or x0 outside the bounds
ApproxDerivativeRejected ==
  /\ op = "none"
  /\ \E n \in Dims, method \in Methods \cup {"5-point"}, x0_ndim \in 0..2,
        f0 \in {"None", "given", "2-d"}, scalar \in BOOLEAN, extra \in 0..1 :
      \E x0 \in Vectors(n, Points) :
       \E lo \in {NegInf, Fin(0), Fin(2 * Unit)}, hi \in {Fin(0), PosInf} :
         \E a \in {[method |-> method, x0 |-> x0, x0_ndim |-> x0_ndim,
                    lb |-> [scalar |-> scalar,
                            v |-> [i \in 1..(IF scalar THEN 1 ELSE n + extra) |-> lo]],
                    ub |-> [scalar |-> FALSE, v |-> [i \in 1..n |-> hi]],
                    rel_step |-> <<>>, f0 |-> f0, fun |-> "sq",
                    sparsity |-> <<>>]} :
             /\ x0_ndim = 0 => n = 1
             /\ approx_derivative(a).err # ""
             /\ op' = "approx_derivative"
             /\ inp' = a
             /\ out' = approx_derivative(a)

NextApprox == ApproxDerivativeRejected \/ ApproxDerivative

SpecApprox == InitNone /\ [][NextApprox]_vars

(***************************************************************************)
(* Claims about approx_derivative, stated on the last call.                *)
(***************************************************************************)
Approx == op = "approx_derivative"
Accepted == Approx /\ out.err = ""
\* lb and ub as vectors, for a call whose bounds have the shape of x0
LbOf(i) == IF inp.lb.scalar THEN inp.lb.v[1] ELSE inp.lb.v[i]
UbOf(i) == IF inp.ub.scalar THEN inp.ub.v[1] ELSE inp.ub.v[i]
InBounds(p) ==
  \A i \in DOMAIN p : ExtLe(LbOf(i), Fin(p[i])) /\ ExtLe(Fin(p[i]), UbOf(i))
\* the offsets c for which the scheme of variable i evaluates x0 + c * h
SchemeOffsets(i) ==
  IF inp.method = "2-point" THEN {1}
  ELSE IF out.use_one_sided[i] THEN {1, 2} ELSE {0 - 1, 1}

\* C1: on every accepted call, the adjusted steps are finite and every
\* point at which fun is evaluated lies inside [lb, ub] on every coordinate;
\* so do the points of the scheme of each variable: x0+h for '2-point',
\* x0+h and x0+2h for a one-sided '3-point' variable, x0-h and x0+h for a
\* two-sided one.
C1_EvalsInBounds ==
  Accepted =>
    /\ \A i \in 1..Len(inp.x0) : IsFin(out.h[i])
    /\ \A k \in 1..Len(out.evals) : InBounds(out.evals[k])
    /\ \A i \in 1..Len(inp.x0) : \A c \in SchemeOffsets(i) :
         /\ ExtLe(LbOf(i), Fin(inp.x0[i] + c * out.h[i].v))
         /\ ExtLe(Fin(inp.x0[i] + c * out.h[i].v), UbOf(i))
         /\ inp.sparsity = <<>> =>
              \E k \in 1..Len(out.evals) :
                out.evals[k] = [j \in 1..Len(inp.x0) |->
                   IF j = i THEN inp.x0[j] + c * out.h[j].v ELSE inp.x0[j]]

\* a dense '3-point' call on two bounded variables, one forced one-sided
\* with a shrunk step that reaches its bound at x0 + 2h, one two-sided
C1_Witness ==
  /\ Accepted /\ inp.method = "3-point" /\ inp.sparsity = <<>>
  /\ Len(inp.x0) = 2
  /\ \E i \in 1..2 :
       /\ out.use_one_sided[i] /\ IsFin(UbOf(i)) /\ out.h[i].v > 0
       /\ Fin(inp.x0[i] + 2 * out.h[i].v) = UbOf(i)
  /\ \E i \in 1..2 : ~out.use_one_sided[i] /\ IsFin(LbOf(i)) /\ out.h[i].v > 0
  /\ Len(out.evals) = 5

\* C2: a call that fails with the input-validation error has not invoked
\* fun: an unknown method, an x0 of more than one dimension, bounds whose
\* shape disagrees with x0, or an x0 outside [lb, ub].
C2_RejectedBeforeEval ==
  (Approx /\ out.err = "ValueError" /\ inp.f0 # "2-d") => out.evals = <<>>

DocCall(lb, ub) ==
  /\ Accepted /\ inp.fun = "g" /\ inp.x0 = <<Unit>> /\ inp.method = "3-point"
  /\ inp.sparsity = <<>> /\ LbOf(1) = lb /\ UbOf(1) = ub
\* the points of the differencing (all but the evaluation for f0)
DiffEvals ==
  {out.evals[k] : k \in (IF inp.f0 = "None" THEN 2 ELSE 1)..Len(out.evals)}

\* C7: for g(x) = x^2 if x >= 1 else x at x0 = 1.0 with '3-point': under
\* bounds (-inf, 1.0) the scheme is one-sided backward, both points lie
\* strictly below x0 and the estimate is exactly 1; under bounds (1.0, +inf)
\* it is one-sided forward, both points lie strictly above x0 and the
\* estimate is exactly 2.
C7_LeftRightDerivative ==
  /\ DocCall(NegInf, Fin(Unit)) =>
       /\ out.use_one_sided[1] /\ out.h[1].v < 0
       /\ Cardinality(DiffEvals) = 2
       /\ \A p \in DiffEvals : p[1] < Unit
       /\ out.J[1][1] = [num |-> 1, den |-> 1]
  /\ DocCall(Fin(Unit), PosInf) =>
       /\ out.use_one_sided[1] /\ out.h[1].v > 0
       /\ Cardinality(DiffEvals) = 2
       /\ \A p \in DiffEvals : p[1] > Unit
       /\ out.J[1][1] = [num |-> 2, den |-> 1]

\* the docstring call under (1.0, +inf) with the default step
C7_Witness ==
  /\ DocCall(Fin(Unit), PosInf) /\ inp.rel_step = <<>> /\ inp.f0 = "None"
  /\ out.J[1][1] = [num |-> 2, den |-> 1]

(***************************************************************************)
(* group_columns(A, order).  A[r][c] is TRUE at a nonzero; order is a      *)
(* permutation of the columns 1..n (the code's, 0-based, plus one); group  *)
(* ids are 0-based as in the code.                                         *)
(***************************************************************************)
\* A = A[:, order]
permute_columns(A, order) ==
  [r \in DOMAIN A |-> [k \in DOMAIN order |-> A[r][order[k]]]]

\* columns j and k of B have a nonzero in the same row
share_row(B, j, k) == \E r \in DOMAIN B : B[r][j] /\ B[r][k]

\* group_dense / group_sparse (not in src/): the greedy sequential
\* colouring of the spec, section 4.4: scanning the columns in order, a
\* column gets the lowest group id used by no earlier column that shares a
\* nonzero row with it.  The result covers the first k columns.
RECURSIVE group_greedy(_, _)
group_greedy(B, k) ==
  IF k = 0 THEN <<>>
  ELSE LET next(prev) ==
             LET used == {prev[j] : j \in {i \in 1..(k - 1) : share_row(B, i, k)}}
             IN  Append(prev, CHOOSE x \in 0..(k - 1) :
                                /\ x \notin used
                                /\ \A y \in 0..(k - 1) : y \notin used => x <= y)
       IN  Apply(next, group_greedy(B, k - 1))

\* mutant of unpermute: groups = groups[order]
unpermute_forward(groups, order) == [c \in DOMAIN order |-> groups[order[c]]]

\* groups[order] = groups.copy()
unpermute(groups, order) ==
  [c \in DOMAIN order |-> groups[CHOOSE k \in DOMAIN order : order[k] = c]]

group_columns(A, order) ==
  unpermute(group_greedy(permute_columns(A, order), Len(order)), order)

Matrices(m, n) == [1..m -> [1..n -> BOOLEAN]]
Permutations(n) == {f \in [1..n -> 1..n] : \A i, j \in 1..n : f[i] = f[j] => i = j}

\* order is any permutation: given by the caller, or drawn by
\* np.random.shuffle when order is None
GroupColumns ==
  /\ op = "none"
  /\ \E m \in 1..MaxRows, n \in 1..MaxCols :
      \E A \in Matrices(m, n), order \in Permutations(n) :
        /\ op' = "group_columns"
        /\ inp' = [A |-> A, order |-> order, m |-> m, n |-> n]
        /\ out' = [err |-> "", groups |-> group_columns(A, order)]

NextGroup == GroupColumns

SpecGroup == InitNone /\ [][NextGroup]_vars

\* groups is a valid grouping of the columns of the structure A
ValidGrouping(A, groups) ==
  \A i, j \in DOMAIN groups :
    (i # j /\ groups[i] = groups[j]) => ~\E r \in DOMAIN A : A[r][i] /\ A[r][j]

\* C3: for every pattern and every column permutation, group_columns
\* returns one group id per original column, the ids used are exactly
\* 0..G-1, and no two columns with the same id have a nonzero in the same
\* row of the original matrix.
C3_GroupingValid ==
  op = "group_columns" =>
    /\ DOMAIN out.groups = 1..inp.n
    /\ \E G \in 1..inp.n : Range(out.groups) = 0..(G - 1)
    /\ ValidGrouping(inp.A, out.groups)

\* three columns enumerated in a cyclic order, coloured with two groups,
\* the first and the last original column conflicting
C3_Witness ==
  /\ op = "group_columns" /\ inp.n = 3 /\ inp.order = <<2, 3, 1>>
  /\ Range(out.groups) = {0, 1}
  /\ \E r \in 1..inp.m : inp.A[r][1] /\ inp.A[r][3]
  /\ \E i, j \in 1..3 : i # j /\ out.groups[i] = out.groups[j]

(***************************************************************************)
(* The two differencers called on the same arguments: any step vector and  *)
(* one-sided mask, any f0, any structure and any vector of group ids; the  *)
(* sparse loop is also run over the groups in the order `order`.           *)
(***************************************************************************)
DirectSteps == (0 - MaxStep)..MaxStep

Difference ==
  /\ op = "none"
  /\ \E n \in Dims, fun \in Funs, method \in Methods, p \in Points,
        shift \in 0..1 :
      \E h \in Vectors(n, DirectSteps), use_one_sided \in Vectors(n, BOOLEAN),
         structure \in Matrices(FunM(fun, n), n),
         groups \in Vectors(n, 0..(n - 1)) :
       \E order \in Permutations(n_groups(groups)) :
        \E a \in {[fun |-> fun, x0 |-> [i \in 1..n |-> p],
                   f0 |-> [r \in 1..FunM(fun, n) |->
                             Fun(fun, [i \in 1..n |-> p])[r] + shift],
                   h |-> h, use_one_sided |-> use_one_sided, method |-> method,
                   structure |-> structure, groups |-> groups]} :
          /\ op' = "difference"
          /\ inp' = [a |-> a, order |-> [k \in DOMAIN order |-> order[k] - 1]]
          /\ out' = [err |-> "",
                     dense |-> dense_difference(fun, a.x0, a.f0, h,
                                                use_one_sided, method),
                     sparse |-> sparse_difference(a),
                     reordered |-> sparse_loop(a,
                                     [k \in DOMAIN order |-> order[k] - 1],
                                     n_groups(groups))]

NextDiff == Difference

SpecDiff == InitNone /\ [][NextDiff]_vars

(***************************************************************************)
(* Claims about the differencers, stated on the last call.                 *)
(***************************************************************************)
Differenced == op = "difference"
FullPattern == \A r \in DOMAIN inp.a.structure :
                 \A c \in DOMAIN inp.a.x0 : inp.a.structure[r][c]
Occurrences(seq, p) == Cardinality({k \in DOMAIN seq : seq[k] = p})

\* C4: for a fully dense structure and a grouping valid for it, the sparse
\* differencer stores at every (row, column) the quotient the dense
\* differencer stores there, and the two evaluate fun at the same points
\* (each point as many times), for '2-point' and '3-point', every step
\* vector, one-sided mask and f0.
C4_DenseSparseEqual ==
  (Differenced /\ FullPattern /\ ValidGrouping(inp.a.structure, inp.a.groups)) =>
    /\ \A r \in DOMAIN inp.a.f0 : \A c \in DOMAIN inp.a.x0 :
         out.sparse.J[r][c] = out.dense.J[r][c]
    /\ Len(out.sparse.evals) = Len(out.dense.evals)
    /\ \A p \in Range(out.dense.evals) :
         Occurrences(out.sparse.evals, p) = Occurrences(out.dense.evals, p)

\* two variables, the groups numbered against the columns, '3-point' with
\* one variable one-sided and one two-sided, two rows, nonzero steps
C4_Witness ==
  /\ Differenced /\ FullPattern /\ inp.a.groups = <<1, 0>>
  /\ inp.a.method = "3-point" /\ inp.a.fun = "mix"
  /\ inp.a.use_one_sided = <<TRUE, FALSE>>
  /\ \A c \in 1..2 : inp.a.h[c] # 0
  /\ out.sparse.J = out.dense.J
  /\ out.sparse.J[2][1] # Zero
  /\ out.sparse.evals # out.dense.evals

\* the perturbed points of the group of column c, from the arguments
GroupX1(c) ==
  [j \in DOMAIN inp.a.x0 |->
     IF inp.a.groups[j] # inp.a.groups[c] THEN inp.a.x0[j]
     ELSE IF inp.a.use_one_sided[j] THEN inp.a.x0[j] + inp.a.h[j]
     ELSE inp.a.x0[j] - inp.a.h[j]]
GroupX2(c) ==
  [j \in DOMAIN inp.a.x0 |->
     IF inp.a.groups[j] # inp.a.groups[c] THEN inp.a.x0[j]
     ELSE IF inp.a.method = "3-point" /\ inp.a.use_one_sided[j]
     THEN inp.a.x0[j] + 2 * inp.a.h[j]
     ELSE inp.a.x0[j] + inp.a.h[j]]
\* the difference quotient of row r for column c, from the perturbation of
\* the group of c
GroupQuotient(r, c) ==
  IF inp.a.method = "2-point"
  THEN Quot(Fun(inp.a.fun, GroupX2(c))[r] - inp.a.f0[r], inp.a.h[c] * Unit)
  ELSE IF inp.a.use_one_sided[c]
  THEN Quot((0 - 3) * inp.a.f0[r] + 4 * Fun(inp.a.fun, GroupX1(c))[r]
              - Fun(inp.a.fun, GroupX2(c))[r], 2 * inp.a.h[c] * Unit)
  ELSE Quot(Fun(inp.a.fun, GroupX2(c))[r] - Fun(inp.a.fun, GroupX1(c))[r],
            2 * inp.a.h[c] * Unit)

\* C10: given a grouping valid for the structure, the sparse Jacobian is
\* the same whatever the order in which the groups are processed: every
\* structurally nonzero position is written exactly once and holds the
\* quotient computed from the perturbation of its column's group, and
\* every other position is never written and is zero.
C10_GroupOrderIrrelevant ==
  (Differenced /\ ValidGrouping(inp.a.structure, inp.a.groups)) =>
    /\ out.reordered.J = out.sparse.J
    /\ \A r \in DOMAIN inp.a.f0 : \A c \in DOMAIN inp.a.x0 :
         IF inp.a.structure[r][c]
         THEN /\ out.reordered.W[r][c] = 1
              /\ out.reordered.J[r][c] = GroupQuotient(r, c)
         ELSE /\ out.reordered.W[r][c] = 0
              /\ out.reordered.J[r][c] = Zero

\* two columns in one group (group 0 is empty), the groups processed
\* against their numbering, a diagonal structure
C10_Witness ==
  /\ Differenced /\ inp.a.groups = <<1, 1>> /\ inp.order = <<1, 0>>
  /\ inp.a.structure = DiagStructure(2, 2) /\ inp.a.fun = "sq"
  /\ inp.a.method = "3-point" /\ inp.a.use_one_sided = <<TRUE, FALSE>>
  /\ out.reordered.J[1][1] # Zero /\ out.reordered.J[2][2] # Zero
  /\ out.reordered.J[1][2] = Zero
  /\ out.reordered.evals # out.sparse.evals

(***************************************************************************)
(* check_derivative.  The arguments travel in a record c: fun; x0; jac,    *)
(* the matrix of integers that jac(x0) returns; issparse, whether that     *)
(* matrix is sparse (its structure is then its nonzero entries);           *)
(* sparse_diff; sparsity, <<>> for None or <<[structure, groups]>>; and    *)
(* order, the permutation np.random.shuffle draws in group_columns.  The   *)
(* bounds are the default (-inf, inf).                                     *)
(***************************************************************************)
\* |analytic - estimate| / max(1, |estimate|) for an integer analytic entry
\* and an estimate that is a fraction; nan when the estimate is not finite
relative_error(analytic, estimate) ==
  IF estimate.den = 0 THEN [num |-> 0, den |-> 0]
  ELSE Quot(Abs(analytic * estimate.den - estimate.num),
            IF Abs(estimate.num) > estimate.den THEN Abs(estimate.num)
            ELSE estimate.den)

RatLe(p, q) == p.num * q.den <= q.num * p.den

\* np.max over the errors of the positions in P; np.max of an empty array
\* raises ValueError
max_error(P, jac, J_diff) ==
  IF P = {} THEN [err |-> "ValueError"]
  ELSE LET E == {relative_error(jac[rc[1]][rc[2]], J_diff[rc[1]][rc[2]]) : rc \in P}
       IN  [err |-> "", accuracy |-> CHOOSE q \in E : \A e \in E : RatLe(e, q)]

\* the structure of a sparse matrix of integers: its nonzero entries
nonzero_pattern(M) == [r \in DOMAIN M |-> [k \in DOMAIN M[r] |-> M[r][k] # 0]]

\* i, j, abs_err_data = find(abs_err): the positions where
\* J_to_test - J_diff is not zero
find_nonzero(jac, J_diff) ==
  {rc \in (DOMAIN jac) \X (DOMAIN jac[1]) :
     J_diff[rc[1]][rc[2]] # [num |-> jac[rc[1]][rc[2]], den |-> 1]}

check_derivative(c) ==
  LET unbounded_scalar(e) == [scalar |-> TRUE, v |-> <<e>>]
      call(sparsity) ==
        approx_derivative([method |-> "3-point", x0 |-> c.x0, x0_ndim |-> 1,
                           lb |-> unbounded_scalar(NegInf),
                           ub |-> unbounded_scalar(PosInf),
                           rel_step |-> <<>>, f0 |-> "None", fun |-> c.fun,
                           sparsity |-> sparsity])
  IN  IF c.issparse /\ c.sparse_diff
      THEN LET sparsity ==
                 IF c.sparsity # <<>> THEN c.sparsity
                 ELSE <<[structure |-> nonzero_pattern(c.jac),
                         groups |-> group_columns(nonzero_pattern(c.jac), c.order)]>>
               compare(J_diff) == max_error(find_nonzero(c.jac, J_diff), c.jac, J_diff)
           IN  Apply(compare, call(sparsity).J)
      ELSE LET compare(J_diff) ==
                 max_error((DOMAIN c.jac) \X (DOMAIN c.jac[1]), c.jac, J_diff)
           IN  Apply(compare, call(<<>>).J)

AnalyticEntries == (0 - MaxEntry)..MaxEntry

CheckDerivative ==
  /\ op = "none"
  /\ \E n \in Dims, fun \in Funs, p \in Points, issparse \in BOOLEAN,
        sparse_diff \in BOOLEAN, supplied \in BOOLEAN :
      \E jac \in [1..FunM(fun, n) -> [1..n -> AnalyticEntries]],
         order \in Permutations(n) :
        \E c \in {[fun |-> fun, x0 |-> [i \in 1..n |-> p], jac |-> jac,
                   issparse |-> issparse, sparse_diff |-> sparse_diff,
                   sparsity |-> IF supplied
                                THEN <<[structure |-> FullStructure(FunM(fun, n), n),
                                        groups |-> [k \in 1..n |-> k - 1]]>>
                                ELSE <<>>,
                   order |-> order]} :
          /\ op' = "check_derivative"
          /\ inp' = c
          /\ out' = check_derivative(c)

NextCheck == CheckDerivative

SpecCheck == InitNone /\ [][NextCheck]_vars

\* the central-difference estimate of entry (r, c) at x0, from the inputs
EstimateAt(r, k) ==
  LET h == (EPS_cbrt * (IF Abs(inp.x0[k]) > Unit THEN Abs(inp.x0[k]) ELSE Unit))
           \div Unit
      xm == [j \in DOMAIN inp.x0 |-> IF j = k THEN inp.x0[j] - h ELSE inp.x0[j]]
      xp == [j \in DOMAIN inp.x0 |-> IF j = k THEN inp.x0[j] + h ELSE inp.x0[j]]
  IN  Quot(Fun(inp.fun, xp)[r] - Fun(inp.fun, xm)[r], 2 * h * Unit)

SparseChecked == op = "check_derivative" /\ inp.issparse /\ inp.sparse_diff
AnalyticPattern == {rc \in (DOMAIN inp.jac) \X (DOMAIN inp.x0) :
                      inp.jac[rc[1]][rc[2]] # 0}

\* C5: with a sparse analytic Jacobian and sparse_diff, check_derivative
\* returns a scalar, the maximum of |analytic - estimate| / max(1, |estimate|)
\* over the structurally nonzero positions of the analytic Jacobian, for
\* every analytic Jacobian, also one that agrees with the estimate
\* everywhere.
C5_SparseAccuracy ==
  (SparseChecked /\ AnalyticPattern # {}) =>
    /\ out.err = ""
    /\ \A rc \in AnalyticPattern :
         RatLe(relative_error(inp.jac[rc[1]][rc[2]], EstimateAt(rc[1], rc[2])),
               out.accuracy)
    /\ \E rc \in AnalyticPattern :
         out.accuracy = relative_error(inp.jac[rc[1]][rc[2]],
                                       EstimateAt(rc[1], rc[2]))

====
